---------------------------- MODULE Spec2Model ----------------------------
(***************************************************************************)
(* Request handlers of the subscription / API-key / call-session back      *)
(* office (server/src/handlers/*.ts) over the relational store declared in *)
(* server/src/db/schema.ts.                                                *)
(*                                                                         *)
(* Every table is the sequence of its rows in insertion order.  A handler  *)
(* is a short sequence of store round trips (each `await db...execute()`); *)
(* one action models one round trip together with the code that follows it *)
(* up to the next round trip, so that requests served concurrently         *)
(* interleave exactly at the awaits.                                       *)
(***************************************************************************)
EXTENDS Integers, Sequences, FiniteSets, TLC

VARIABLES plans, users, keys, voices, sessions, turns, nextId, now, req, resp

vars == <<plans, users, keys, voices, sessions, turns, nextId, now, req, resp>>
store == <<plans, users, keys, voices, sessions, turns, nextId>>

----------------------------------------------------------------------------
(* Bounds of the model. *)

MaxPlans == 2
MaxUsers == 2
MaxKeys == 3
MaxVoices == 2
MaxSessions == 2
MaxTurns == 3
MaxLimit == 2
MaxTime == 2

----------------------------------------------------------------------------
(* Values. *)

\* SQL NULL / JS null in a numeric or timestamp column.
NULL == -1
\* SQL NULL / JS null in a text column.
NullText == "NULL"

\* The requests in flight: each is served by one async call of a handler.
Procs == {"p1", "p2"}

Idle == [op |-> "idle"]
NoResp == [op |-> "none", status |-> "none", id |-> NULL]

\* An optional input field that is absent reads as `undefined` in the handler.
Has(input, f) == f \in DOMAIN input

Rows(t) == {t[i] : i \in 1..Len(t)}

\* select ... where id = <id>
ById(t, id) == {r \in Rows(t) : r.id = id}

\* update <t> set ... where id = <id>: the row `new` replaces the row with that id.
UpdateById(t, id, new) == [i \in 1..Len(t) |-> IF t[i].id = id THEN new ELSE t[i]]

\* (mutant) the insert does not advance the sequence
TakeNoId(table) == nextId

\* serial('id'): nextval() is taken by every insert that reaches the store,
\* also by one that a unique constraint then rejects.
TakeId(table) == [nextId EXCEPT ![table] = @ + 1]

----------------------------------------------------------------------------
(* Store-level constraints (db/schema.ts). *)

\* (mutant) the column is declared without .unique()
NotUnique(value) == FALSE

\* (mutant) the email column is declared without .unique()
EmailNotUnique(email, exceptId) == FALSE

\* usersTable.email is .unique(): a row other than `exceptId` holds the email.
EmailTaken(email, exceptId) ==
  \E u \in Rows(users) : u.email = email /\ u.id # exceptId

\* voicesTable.identifier is .unique().
IdentifierTaken(identifier) ==
  \E v \in Rows(voices) : v.identifier = identifier

\* callSessionsTable.twilio_call_id is .unique().
TwilioCallIdTaken(twilio_call_id) ==
  \E s \in Rows(sessions) : s.twilio_call_id = twilio_call_id

\* subscriptionPlansTable.name is text('name').notNull() with no unique
\* constraint: the store never rejects a plan row for its name.
PlanNameRejected(name) == FALSE

----------------------------------------------------------------------------
(* Request bookkeeping. *)

\* The handler is invoked with `input`.
Call(p, op, first, input) ==
  /\ req[p] = Idle
  /\ req' = [req EXCEPT ![p] = [op |-> op, step |-> first, in |-> input]]
  /\ resp' = [resp EXCEPT ![p] = NoResp]
  /\ UNCHANGED <<store, now>>

At(p, op, step) == req[p].op = op /\ req[p].step = step

\* The handler moves on to its next round trip, remembering `loc`.
Goto(p, step, loc) ==
  /\ req' = [req EXCEPT ![p] = [op |-> req[p].op, step |-> step,
                                in |-> req[p].in, loc |-> loc]]
  /\ UNCHANGED resp

\* The handler returns the row `id` (status "ok") or throws (any other
\* status); the response is kept with the input it answers.
Return(p, status, id) ==
  /\ req' = [req EXCEPT ![p] = Idle]
  /\ resp' = [resp EXCEPT ![p] = [op |-> req[p].op, in |-> req[p].in,
                                   status |-> status, id |-> id]]

\* Time passes: the clock read by defaultNow() and new Date().
Tick ==
  /\ now < MaxTime
  /\ now' = now + 1
  /\ UNCHANGED <<store, req, resp>>

----------------------------------------------------------------------------
(* createSubscriptionPlan *)

CallCreateSubscriptionPlan(p, input) ==
  Call(p, "createSubscriptionPlan", "select", input)

\* select from subscription_plans where name = input.name; throw if any.
CreateSubscriptionPlan_Select(p) ==
  /\ At(p, "createSubscriptionPlan", "select")
  /\ IF \E pl \in Rows(plans) : pl.name = req[p].in.name
       THEN Return(p, "already_exists", NULL)
       ELSE Goto(p, "insert", [none |-> TRUE])
  /\ UNCHANGED <<store, now>>

\* insert into subscription_plans ... returning.  Prices are in hundredths,
\* the scale of the numeric(10, 2) column.
CreateSubscriptionPlan_Insert(p) ==
  /\ At(p, "createSubscriptionPlan", "insert")
  /\ nextId.plans <= MaxPlans
  /\ nextId' = TakeId("plans")
  /\ IF PlanNameRejected(req[p].in.name)
       THEN /\ Return(p, "unique_violation", NULL)
            /\ UNCHANGED plans
       ELSE /\ plans' = Append(plans,
                 [id |-> nextId.plans,
                  name |-> req[p].in.name,
                  description |-> req[p].in.description,
                  price |-> req[p].in.price,
                  max_api_keys |-> req[p].in.max_api_keys,
                  max_monthly_calls |-> req[p].in.max_monthly_calls,
                  created_at |-> now])
            /\ Return(p, "ok", nextId.plans)
  /\ UNCHANGED <<users, keys, voices, sessions, turns, now>>

----------------------------------------------------------------------------
(* createUser *)

\* (mutant) an explicit null counts as a plan id to look up
PlanIdPresent(input) == Has(input, "subscription_plan_id")

\* input.subscription_plan_id !== null && input.subscription_plan_id !== undefined
PlanIdProvided(input) ==
  Has(input, "subscription_plan_id") /\ input.subscription_plan_id # NULL

CallCreateUser(p, input) ==
  Call(p, "createUser",
          IF PlanIdProvided(input) THEN "selectPlan" ELSE "insert", input)

\* (mutant) the email is looked up before the plan
CreateUser_SelectPlanAfterEmail(p) ==
  /\ At(p, "createUser", "selectPlan")
  /\ IF EmailTaken(req[p].in.email, NULL)
       THEN Return(p, "unique_violation", NULL)
       ELSE IF ById(plans, req[p].in.subscription_plan_id) = {}
              THEN Return(p, "plan_does_not_exist", NULL)
              ELSE Goto(p, "insert", [none |-> TRUE])
  /\ UNCHANGED <<store, now>>

\* select from subscription_plans where id = input.subscription_plan_id
CreateUser_SelectPlan(p) ==
  /\ At(p, "createUser", "selectPlan")
  /\ IF ById(plans, req[p].in.subscription_plan_id) = {}
       THEN Return(p, "plan_does_not_exist", NULL)
       ELSE Goto(p, "insert", [none |-> TRUE])
  /\ UNCHANGED <<store, now>>

\* insert into users ... returning; the store rejects a duplicate email.
CreateUser_Insert(p) ==
  /\ At(p, "createUser", "insert")
  /\ nextId.users <= MaxUsers
  /\ nextId' = TakeId("users")
  /\ IF EmailTaken(req[p].in.email, NULL)
       THEN /\ Return(p, "unique_violation", NULL)
            /\ UNCHANGED users
       ELSE /\ users' = Append(users,
                 [id |-> nextId.users,
                  email |-> req[p].in.email,
                  name |-> req[p].in.name,
                  created_at |-> now,
                  updated_at |-> now,
                  subscription_plan_id |->
                    IF Has(req[p].in, "subscription_plan_id")
                      THEN req[p].in.subscription_plan_id ELSE NULL])
            /\ Return(p, "ok", nextId.users)
  /\ UNCHANGED <<plans, keys, voices, sessions, turns, now>>

----------------------------------------------------------------------------
(* updateUser *)

CallUpdateUser(p, input) == Call(p, "updateUser", "selectUser", input)

\* if (input.email): a provided, non-empty email.
EmailGiven(input) == Has(input, "email") /\ input.email # ""

\* (mutant) updateUser looks the plan up, as createUser does
UpdateUser_SelectUserChecksPlan(p) ==
  /\ At(p, "updateUser", "selectUser")
  /\ IF ById(users, req[p].in.id) = {}
       THEN Return(p, "not_found", NULL)
       ELSE IF PlanIdProvided(req[p].in)
                 /\ ById(plans, req[p].in.subscription_plan_id) = {}
              THEN Return(p, "plan_does_not_exist", NULL)
              ELSE IF EmailGiven(req[p].in)
                     THEN Goto(p, "checkEmail", [none |-> TRUE])
                     ELSE Goto(p, "update", [updated_at |-> now])
  /\ UNCHANGED <<store, now>>

\* select from users where id = input.id; then, with no email to check, the
\* update object is built (updated_at: new Date()) and the update is sent.
UpdateUser_SelectUser(p) ==
  /\ At(p, "updateUser", "selectUser")
  /\ IF ById(users, req[p].in.id) = {}
       THEN Return(p, "not_found", NULL)
       ELSE IF EmailGiven(req[p].in)
              THEN Goto(p, "checkEmail", [none |-> TRUE])
              ELSE Goto(p, "update", [updated_at |-> now])
  /\ UNCHANGED <<store, now>>

\* (mutant) the email check does not exclude the user's own row
EmailInUseAnyRow(email, id) == \E u \in Rows(users) : u.email = email

\* select from users where email = input.email and id <> input.id
EmailInUse(email, id) ==
  \E u \in Rows(users) : u.email = email /\ u.id # id

UpdateUser_CheckEmail(p) ==
  /\ At(p, "updateUser", "checkEmail")
  /\ IF EmailInUse(req[p].in.email, req[p].in.id)
       THEN Return(p, "email_in_use", NULL)
       ELSE Goto(p, "update", [updated_at |-> now])
  /\ UNCHANGED <<store, now>>

\* (mutant) an absent subscription_plan_id is written as null
UpdatedUserClearsPlan(u, input, updated_at) ==
  [u EXCEPT !.updated_at = updated_at,
            !.email = IF Has(input, "email") THEN input.email ELSE @,
            !.name = IF Has(input, "name") THEN input.name ELSE @,
            !.subscription_plan_id =
               IF Has(input, "subscription_plan_id")
                 THEN input.subscription_plan_id ELSE NULL]

\* (mutant) updated_at is written only together with another field
UpdatedUserKeepsStamp(u, input, updated_at) ==
  [u EXCEPT !.updated_at = IF DOMAIN input = {"id"} THEN @ ELSE updated_at,
            !.email = IF Has(input, "email") THEN input.email ELSE @,
            !.name = IF Has(input, "name") THEN input.name ELSE @,
            !.subscription_plan_id =
               IF Has(input, "subscription_plan_id")
                 THEN input.subscription_plan_id ELSE @]

\* updateData: updated_at always, the other fields only when provided.
UpdatedUser(u, input, updated_at) ==
  [u EXCEPT !.updated_at = updated_at,
            !.email = IF Has(input, "email") THEN input.email ELSE @,
            !.name = IF Has(input, "name") THEN input.name ELSE @,
            !.subscription_plan_id =
               IF Has(input, "subscription_plan_id")
                 THEN input.subscription_plan_id ELSE @]

\* update users set ... where id = input.id returning; the store rejects an
\* email that another row holds.
UpdateUser_Update(p) ==
  /\ At(p, "updateUser", "update")
  /\ LET old == CHOOSE u \in ById(users, req[p].in.id) : TRUE
         new == UpdatedUser(old, req[p].in, req[p].loc.updated_at)
     IN  IF EmailTaken(new.email, new.id)
           THEN /\ Return(p, "unique_violation", NULL)
                /\ UNCHANGED users
           ELSE /\ users' = UpdateById(users, req[p].in.id, new)
                /\ Return(p, "ok", new.id)
  /\ UNCHANGED <<plans, keys, voices, sessions, turns, nextId, now>>

----------------------------------------------------------------------------
(* createApiKey *)

CallCreateApiKey(p, input) ==
  Call(p, "createApiKey", "selectUser", input)

\* if (userWithPlan.subscription_plan_id): neither null nor 0.
HasPlan(u) == u.subscription_plan_id # NULL /\ u.subscription_plan_id # 0

\* select from users where id = input.user_id
CreateApiKey_SelectUser(p) ==
  /\ At(p, "createApiKey", "selectUser")
  /\ IF ById(users, req[p].in.user_id) = {}
       THEN Return(p, "not_found", NULL)
       ELSE LET u == CHOOSE u \in ById(users, req[p].in.user_id) : TRUE
            IN  IF HasPlan(u)
                  THEN Goto(p, "selectPlan", [plan_id |-> u.subscription_plan_id])
                  ELSE Goto(p, "insert", [none |-> TRUE])
  /\ UNCHANGED <<store, now>>

\* (mutant) the plan's max_api_keys is compared without the null test, and
\* `count >= null` compares with 0
CreateApiKey_SelectPlanNoNullTest(p) ==
  /\ At(p, "createApiKey", "selectPlan")
  /\ LET found == ById(plans, req[p].loc.plan_id)
     IN  IF found # {}
           THEN Goto(p, "countKeys",
                     [max_api_keys |->
                        IF (CHOOSE pl \in found : TRUE).max_api_keys = NULL
                          THEN 0 ELSE (CHOOSE pl \in found : TRUE).max_api_keys])
           ELSE Goto(p, "insert", [none |-> TRUE])
  /\ UNCHANGED <<store, now>>

\* select from subscription_plans where id = user.subscription_plan_id
CreateApiKey_SelectPlan(p) ==
  /\ At(p, "createApiKey", "selectPlan")
  /\ LET found == ById(plans, req[p].loc.plan_id)
     IN  IF found # {} /\ (CHOOSE pl \in found : TRUE).max_api_keys # NULL
           THEN Goto(p, "countKeys",
                     [max_api_keys |-> (CHOOSE pl \in found : TRUE).max_api_keys])
           ELSE Goto(p, "insert", [none |-> TRUE])
  /\ UNCHANGED <<store, now>>

\* (mutant) the select on api_keys has no where clause
ActiveApiKeysCountAllUsers(user_id) ==
  Cardinality({k \in Rows(keys) : k.is_active})

\* existingApiKeys.filter(key => key.is_active).length over the user's keys
ActiveApiKeysCount(user_id) ==
  Cardinality({k \in Rows(keys) : k.user_id = user_id /\ k.is_active})

\* (mutant) the limit check off by one
LimitReachedOffByOne(count, max_api_keys) == count > max_api_keys

\* activeApiKeysCount >= subscriptionPlan[0].max_api_keys
LimitReached(count, max_api_keys) == count >= max_api_keys

\* select from api_keys where user_id = input.user_id, then the limit check
CreateApiKey_CountKeys(p) ==
  /\ At(p, "createApiKey", "countKeys")
  /\ IF LimitReached(ActiveApiKeysCount(req[p].in.user_id), req[p].loc.max_api_keys)
       THEN Return(p, "limit_reached", NULL)
       ELSE Goto(p, "insert", [none |-> TRUE])
  /\ UNCHANGED <<store, now>>

\* (mutant) the insert stamps last_used_at with the time of creation
CreateApiKey_InsertUsed(p) ==
  /\ At(p, "createApiKey", "insert")
  /\ nextId.keys <= MaxKeys
  /\ nextId' = TakeId("keys")
  /\ keys' = Append(keys,
       [id |-> nextId.keys,
        user_id |-> req[p].in.user_id,
        key_hash |-> req[p].in.key_hash,
        name |-> req[p].in.name,
        is_active |-> TRUE,
        created_at |-> now,
        last_used_at |-> now])
  /\ Return(p, "ok", nextId.keys)
  /\ UNCHANGED <<plans, users, voices, sessions, turns, now>>

\* insert into api_keys ... returning
CreateApiKey_Insert(p) ==
  /\ At(p, "createApiKey", "insert")
  /\ nextId.keys <= MaxKeys
  /\ nextId' = TakeId("keys")
  /\ keys' = Append(keys,
       [id |-> nextId.keys,
        user_id |-> req[p].in.user_id,
        key_hash |-> req[p].in.key_hash,
        name |-> req[p].in.name,
        is_active |-> TRUE,
        created_at |-> now,
        last_used_at |-> NULL])
  /\ Return(p, "ok", nextId.keys)
  /\ UNCHANGED <<plans, users, voices, sessions, turns, now>>

----------------------------------------------------------------------------
(* updateApiKey *)

CallUpdateApiKey(p, input) == Call(p, "updateApiKey", "select", input)

\* select from api_keys where id = input.id; then updateData is built and
\* .set(updateData) is called, which throws on an object with no field.
UpdateApiKey_Select(p) ==
  /\ At(p, "updateApiKey", "select")
  /\ IF ById(keys, req[p].in.id) = {}
       THEN Return(p, "not_found", NULL)
       ELSE IF ~Has(req[p].in, "name") /\ ~Has(req[p].in, "is_active")
              THEN Return(p, "no_values_to_set", NULL)
              ELSE Goto(p, "update", [none |-> TRUE])
  /\ UNCHANGED <<store, now>>

\* (mutant) an absent is_active is written as the column's default
UpdatedApiKeyResets(k, input) ==
  [k EXCEPT !.name = IF Has(input, "name") THEN input.name ELSE @,
            !.is_active = IF Has(input, "is_active") THEN input.is_active ELSE TRUE]

\* updateData: only the provided fields.
UpdatedApiKey(k, input) ==
  [k EXCEPT !.name = IF Has(input, "name") THEN input.name ELSE @,
            !.is_active = IF Has(input, "is_active") THEN input.is_active ELSE @]

\* update api_keys set ... where id = input.id returning
UpdateApiKey_Update(p) ==
  /\ At(p, "updateApiKey", "update")
  /\ LET old == CHOOSE k \in ById(keys, req[p].in.id) : TRUE
     IN  /\ keys' = UpdateById(keys, req[p].in.id, UpdatedApiKey(old, req[p].in))
         /\ Return(p, "ok", old.id)
  /\ UNCHANGED <<plans, users, voices, sessions, turns, nextId, now>>

----------------------------------------------------------------------------
(* createVoice *)

CallCreateVoice(p, input) ==
  Call(p, "createVoice", "insert", input)

\* insert into voices ... returning; the store rejects a duplicate identifier.
CreateVoice_Insert(p) ==
  /\ At(p, "createVoice", "insert")
  /\ nextId.voices <= MaxVoices
  /\ nextId' = TakeId("voices")
  /\ IF IdentifierTaken(req[p].in.identifier)
       THEN /\ Return(p, "unique_violation", NULL)
            /\ UNCHANGED voices
       ELSE /\ voices' = Append(voices,
                 [id |-> nextId.voices,
                  name |-> req[p].in.name,
                  identifier |-> req[p].in.identifier,
                  description |-> req[p].in.description,
                  created_at |-> now])
            /\ Return(p, "ok", nextId.voices)
  /\ UNCHANGED <<plans, users, keys, sessions, turns, now>>

----------------------------------------------------------------------------
(* createCallSession *)

CallCreateCallSession(p, input) ==
  Call(p, "createCallSession", "selectUser", input)

\* (mutant) the session is inserted without the select on users
CreateCallSession_SelectUserSkipped(p) ==
  /\ At(p, "createCallSession", "selectUser")
  /\ Goto(p, "insert", [none |-> TRUE])
  /\ UNCHANGED <<store, now>>

\* select id from users where id = input.user_id
CreateCallSession_SelectUser(p) ==
  /\ At(p, "createCallSession", "selectUser")
  /\ IF ById(users, req[p].in.user_id) = {}
       THEN Return(p, "user_does_not_exist", NULL)
       ELSE Goto(p, "insert", [none |-> TRUE])
  /\ UNCHANGED <<store, now>>

\* (mutant) the insert stores the start_time as end_time too
CreateCallSession_InsertEnded(p) ==
  /\ At(p, "createCallSession", "insert")
  /\ nextId.sessions <= MaxSessions
  /\ nextId' = TakeId("sessions")
  /\ IF TwilioCallIdTaken(req[p].in.twilio_call_id)
       THEN /\ Return(p, "unique_violation", NULL)
            /\ UNCHANGED sessions
       ELSE /\ sessions' = Append(sessions,
                 [id |-> nextId.sessions,
                  twilio_call_id |-> req[p].in.twilio_call_id,
                  user_id |-> req[p].in.user_id,
                  start_time |-> req[p].in.start_time,
                  end_time |-> req[p].in.start_time,
                  created_at |-> now])
            /\ Return(p, "ok", nextId.sessions)
  /\ UNCHANGED <<plans, users, keys, voices, turns, now>>

\* insert into call_sessions ... returning; the store rejects a duplicate
\* twilio_call_id.  end_time is not among the values: it is stored null.
CreateCallSession_Insert(p) ==
  /\ At(p, "createCallSession", "insert")
  /\ nextId.sessions <= MaxSessions
  /\ nextId' = TakeId("sessions")
  /\ IF TwilioCallIdTaken(req[p].in.twilio_call_id)
       THEN /\ Return(p, "unique_violation", NULL)
            /\ UNCHANGED sessions
       ELSE /\ sessions' = Append(sessions,
                 [id |-> nextId.sessions,
                  twilio_call_id |-> req[p].in.twilio_call_id,
                  user_id |-> req[p].in.user_id,
                  start_time |-> req[p].in.start_time,
                  end_time |-> NULL,
                  created_at |-> now])
            /\ Return(p, "ok", nextId.sessions)
  /\ UNCHANGED <<plans, users, keys, voices, turns, now>>

----------------------------------------------------------------------------
(* endCallSession *)

CallEndCallSession(p, input) == Call(p, "endCallSession", "select", input)

\* (mutant) a session is never taken as ended
NeverEnded(s) == FALSE

\* existingSession.end_time !== null
AlreadyEnded(s) == s.end_time # NULL

\* select from call_sessions where id = input.id, then the two checks
EndCallSession_Select(p) ==
  /\ At(p, "endCallSession", "select")
  /\ IF ById(sessions, req[p].in.id) = {}
       THEN Return(p, "not_found", NULL)
       ELSE IF AlreadyEnded(CHOOSE s \in ById(sessions, req[p].in.id) : TRUE)
              THEN Return(p, "already_ended", NULL)
              ELSE Goto(p, "update", [none |-> TRUE])
  /\ UNCHANGED <<store, now>>

\* (mutant) ending a session deletes its turns
EndCallSession_UpdatePurges(p) ==
  /\ At(p, "endCallSession", "update")
  /\ LET old == CHOOSE s \in ById(sessions, req[p].in.id) : TRUE
     IN  /\ sessions' = UpdateById(sessions, req[p].in.id,
                                   [old EXCEPT !.end_time = req[p].in.end_time])
         /\ turns' = SelectSeq(turns, LAMBDA t : t.call_session_id # old.id)
         /\ Return(p, "ok", old.id)
  /\ UNCHANGED <<plans, users, keys, voices, nextId, now>>

\* (mutant) the update has no where clause: every session is ended
EndCallSession_UpdateAll(p) ==
  /\ At(p, "endCallSession", "update")
  /\ sessions' = [i \in 1..Len(sessions) |->
                    [sessions[i] EXCEPT !.end_time = req[p].in.end_time]]
  /\ Return(p, "ok", req[p].in.id)
  /\ UNCHANGED <<plans, users, keys, voices, turns, nextId, now>>

\* update call_sessions set end_time = input.end_time where id = input.id
EndCallSession_Update(p) ==
  /\ At(p, "endCallSession", "update")
  /\ LET old == CHOOSE s \in ById(sessions, req[p].in.id) : TRUE
     IN  /\ sessions' = UpdateById(sessions, req[p].in.id,
                                   [old EXCEPT !.end_time = req[p].in.end_time])
         /\ Return(p, "ok", old.id)
  /\ UNCHANGED <<plans, users, keys, voices, turns, nextId, now>>

----------------------------------------------------------------------------
(* createTurn *)

CallCreateTurn(p, input) ==
  Call(p, "createTurn", "selectSession", input)

\* (mutant) the check reads the start of the session instead of its end
SessionStarted(s) == s.start_time # NULL

\* callSession[0].end_time !== null
SessionEnded(s) == s.end_time # NULL

\* (mutant) the turn is inserted before the session is found to be ended
CreateTurn_SelectSessionLate(p) ==
  /\ At(p, "createTurn", "selectSession")
  /\ IF ById(sessions, req[p].in.call_session_id) = {}
       THEN /\ Return(p, "not_found", NULL)
            /\ UNCHANGED <<turns, nextId>>
       ELSE IF SessionEnded(CHOOSE s \in ById(sessions, req[p].in.call_session_id) : TRUE)
              THEN /\ nextId.turns <= MaxTurns
                   /\ nextId' = TakeId("turns")
                   /\ turns' = Append(turns,
                        [id |-> nextId.turns,
                         call_session_id |-> req[p].in.call_session_id,
                         role |-> req[p].in.role,
                         text |-> req[p].in.text,
                         latency_ms |-> req[p].in.latency_ms,
                         created_at |-> now])
                   /\ Return(p, "session_ended", NULL)
              ELSE /\ Goto(p, "insert", [none |-> TRUE])
                   /\ UNCHANGED <<turns, nextId>>
  /\ UNCHANGED <<plans, users, keys, voices, sessions, now>>

\* select from call_sessions where id = input.call_session_id, then the checks
CreateTurn_SelectSession(p) ==
  /\ At(p, "createTurn", "selectSession")
  /\ IF ById(sessions, req[p].in.call_session_id) = {}
       THEN Return(p, "not_found", NULL)
       ELSE IF SessionEnded(CHOOSE s \in ById(sessions, req[p].in.call_session_id) : TRUE)
              THEN Return(p, "session_ended", NULL)
              ELSE Goto(p, "insert", [none |-> TRUE])
  /\ UNCHANGED <<store, now>>

\* insert into turns ... returning
CreateTurn_Insert(p) ==
  /\ At(p, "createTurn", "insert")
  /\ nextId.turns <= MaxTurns
  /\ nextId' = TakeId("turns")
  /\ turns' = Append(turns,
       [id |-> nextId.turns,
        call_session_id |-> req[p].in.call_session_id,
        role |-> req[p].in.role,
        text |-> req[p].in.text,
        latency_ms |-> req[p].in.latency_ms,
        created_at |-> now])
  /\ Return(p, "ok", nextId.turns)
  /\ UNCHANGED <<plans, users, keys, voices, sessions, now>>

\* getTurnsByCallSession's second query: the turns where call_session_id = id
TurnsOfCallSession(id) == {t \in Rows(turns) : t.call_session_id = id}

----------------------------------------------------------------------------
(* getTurnsByCallSession *)

CallGetTurnsByCallSession(p, callSessionId) ==
  Call(p, "getTurnsByCallSession", "selectSession",
          [callSessionId |-> callSessionId])

\* select from call_sessions where id = callSessionId; throw if none.
GetTurnsByCallSession_SelectSession(p) ==
  /\ At(p, "getTurnsByCallSession", "selectSession")
  /\ IF ById(sessions, req[p].in.callSessionId) = {}
       THEN Return(p, "not_found", NULL)
       ELSE Goto(p, "selectTurns", [none |-> TRUE])
  /\ UNCHANGED <<store, now>>

\* (mutant) the query has no orderBy
Unordered(q) == TRUE

\* orderBy(asc(turnsTable.created_at))
AscCreatedAt(q) ==
  \A i, j \in 1..Len(q) : i < j => q[i].created_at <= q[j].created_at

\* The results the store may give for a query that selects the rows `S` with
\* the order by clause: every arrangement of S in ascending created_at, rows
\* with equal created_at in either order.
Ordered(S) ==
  {q \in [1..Cardinality(S) -> S] :
     /\ \A i, j \in 1..Cardinality(S) : q[i] = q[j] => i = j
     /\ AscCreatedAt(q)}

\* select from turns where call_session_id = callSessionId order by
\* created_at asc; the handler returns the rows.
GetTurnsByCallSession_SelectTurns(p) ==
  /\ At(p, "getTurnsByCallSession", "selectTurns")
  /\ \E rows \in Ordered(TurnsOfCallSession(req[p].in.callSessionId)) :
       /\ req' = [req EXCEPT ![p] = Idle]
       /\ resp' = [resp EXCEPT ![p] = [op |-> req[p].op, in |-> req[p].in,
                                        status |-> "ok", id |-> NULL,
                                        rows |-> rows]]
  /\ UNCHANGED <<store, now>>

----------------------------------------------------------------------------
(* The list handlers. *)

\* The results the store may give for a query that selects the rows `S` with
\* no order by clause: SQL leaves the order of the rows to the store.
AnyOrder(S) ==
  {q \in [1..Cardinality(S) -> S] :
     \A i, j \in 1..Cardinality(S) : q[i] = q[j] => i = j}

\* The handler returns the rows of its last query.
ReturnRows(p, rows) ==
  /\ req' = [req EXCEPT ![p] = Idle]
  /\ resp' = [resp EXCEPT ![p] = [op |-> req[p].op, in |-> req[p].in,
                                   status |-> "ok", id |-> NULL,
                                   rows |-> rows]]

CallGetSubscriptionPlans(p) ==
  Call(p, "getSubscriptionPlans", "select", [none |-> TRUE])

\* select from subscription_plans; every row is returned, its price parsed.
GetSubscriptionPlans_Select(p) ==
  /\ At(p, "getSubscriptionPlans", "select")
  /\ \E rows \in AnyOrder(Rows(plans)) : ReturnRows(p, rows)
  /\ UNCHANGED <<store, now>>

CallGetApiKeysByUser(p, userId) ==
  Call(p, "getApiKeysByUser", "selectUser", [userId |-> userId])

\* select from users where id = userId; throw if none.
GetApiKeysByUser_SelectUser(p) ==
  /\ At(p, "getApiKeysByUser", "selectUser")
  /\ IF ById(users, req[p].in.userId) = {}
       THEN Return(p, "not_found", NULL)
       ELSE Goto(p, "selectKeys", [none |-> TRUE])
  /\ UNCHANGED <<store, now>>

\* (mutant) the query also asks for is_active
ActiveApiKeysOfUser(userId) ==
  {k \in Rows(keys) : k.user_id = userId /\ k.is_active}

\* where(eq(apiKeysTable.user_id, userId))
ApiKeysOfUser(userId) == {k \in Rows(keys) : k.user_id = userId}

\* select from api_keys where user_id = userId; the rows are returned.
GetApiKeysByUser_SelectKeys(p) ==
  /\ At(p, "getApiKeysByUser", "selectKeys")
  /\ \E rows \in AnyOrder(ApiKeysOfUser(req[p].in.userId)) : ReturnRows(p, rows)
  /\ UNCHANGED <<store, now>>

CallGetCallSessionsByUser(p, userId) ==
  Call(p, "getCallSessionsByUser", "selectUser", [userId |-> userId])

\* select from users where id = userId limit 1; throw if none.
GetCallSessionsByUser_SelectUser(p) ==
  /\ At(p, "getCallSessionsByUser", "selectUser")
  /\ IF ById(users, req[p].in.userId) = {}
       THEN Return(p, "not_found", NULL)
       ELSE Goto(p, "selectSessions", [none |-> TRUE])
  /\ UNCHANGED <<store, now>>

\* where(eq(callSessionsTable.user_id, userId))
CallSessionsOfUser(userId) == {c \in Rows(sessions) : c.user_id = userId}

\* select from call_sessions where user_id = userId; the rows are returned.
GetCallSessionsByUser_SelectSessions(p) ==
  /\ At(p, "getCallSessionsByUser", "selectSessions")
  /\ \E rows \in AnyOrder(CallSessionsOfUser(req[p].in.userId)) :
       ReturnRows(p, rows)
  /\ UNCHANGED <<store, now>>

----------------------------------------------------------------------------
(* Inputs, as the zod schemas of server/src/schema.ts admit them, drawn from *)
(* small sets.                                                              *)

PlanNames == {"basic", "pro"}
Emails == {"a@x", "b@x"}
Times == 0..MaxTime

\* createSubscriptionPlanInputSchema: max_api_keys is a positive int or null.
PlanInputs(names) ==
  {[name |-> n, description |-> NullText, price |-> 999,
    max_api_keys |-> m, max_monthly_calls |-> NULL] :
     n \in names, m \in {NULL} \cup (1..MaxLimit)}

\* createUserInputSchema: subscription_plan_id is a number or null.
UserInputs ==
  {[email |-> e, name |-> "n", subscription_plan_id |-> pl] :
     e \in Emails, pl \in {NULL} \cup (1..MaxPlans)}

\* updateUserInputSchema: email, name and subscription_plan_id are optional.
UpdateUserEmailInputs ==
  {[id |-> i, email |-> e] : i \in 1..MaxUsers, e \in Emails}

UpdateUserPlanInputs ==
  {[id |-> i, subscription_plan_id |-> pl] :
     i \in 1..MaxUsers, pl \in {NULL} \cup (1..MaxPlans)}

\* createApiKeyInputSchema
ApiKeyInputs ==
  {[user_id |-> u, key_hash |-> "h", name |-> "k"] : u \in 1..MaxUsers}

\* updateApiKeyInputSchema: name and is_active are optional.
UpdateApiKeyInputs ==
  {[id |-> i, is_active |-> a] : i \in 1..MaxKeys, a \in BOOLEAN}

----------------------------------------------------------------------------
(* Specifications. *)

EmptyStore ==
  /\ plans = <<>> /\ users = <<>> /\ keys = <<>>
  /\ voices = <<>> /\ sessions = <<>> /\ turns = <<>>
  /\ nextId = [plans |-> 1, users |-> 1, keys |-> 1,
               voices |-> 1, sessions |-> 1, turns |-> 1]

NoRequests ==
  /\ now = 0
  /\ req = [p \in Procs |-> Idle]
  /\ resp = [p \in Procs |-> NoResp]

Init == EmptyStore /\ NoRequests

\* One client that awaits every call before it makes the next: plans, users
\* and API keys.
NextKeys ==
  \/ \E i \in PlanInputs({"basic"}) : CallCreateSubscriptionPlan("p1", i)
  \/ CreateSubscriptionPlan_Select("p1")
  \/ CreateSubscriptionPlan_Insert("p1")
  \/ \E i \in {u \in UserInputs : u.email = "a@x"} : CallCreateUser("p1", i)
  \/ CreateUser_SelectPlan("p1")
  \/ CreateUser_Insert("p1")
  \/ \E i \in UpdateUserPlanInputs : CallUpdateUser("p1", i)
  \/ UpdateUser_SelectUser("p1")
  \/ UpdateUser_Update("p1")
  \/ \E i \in ApiKeyInputs : CallCreateApiKey("p1", i)
  \/ CreateApiKey_SelectUser("p1")
  \/ CreateApiKey_SelectPlan("p1")
  \/ CreateApiKey_CountKeys("p1")
  \/ CreateApiKey_Insert("p1")
  \/ \E i \in UpdateApiKeyInputs : CallUpdateApiKey("p1", i)
  \/ UpdateApiKey_Select("p1")
  \/ UpdateApiKey_Update("p1")

SpecKeys == Init /\ [][NextKeys]_vars

----------------------------------------------------------------------------
(* C1, C2: the plan's API-key limit, one call at a time. *)

\* C1: for every user whose subscription_plan_id references an existing plan
\* with a non-null max_api_keys, the number of the user's keys with
\* is_active = true does not exceed that max_api_keys.
C1_ActiveKeysWithinLimit ==
  \A u \in Rows(users) : \A pl \in ById(plans, u.subscription_plan_id) :
    pl.max_api_keys # NULL => ActiveApiKeysCount(u.id) <= pl.max_api_keys

\* C2: for a user whose plan has max_api_keys = N, a createApiKey call
\* succeeds and adds one active key exactly when the user has fewer than N
\* active keys, and otherwise fails with 'API key limit reached' and adds
\* nothing (so N calls succeed from no keys and the next fails); setting an
\* active key to is_active = false lowers the user's count by exactly one (so
\* exactly one further call succeeds).
C2_LimitBoundary ==
  [][/\ \A u \in Rows(users) : \A pl \in ById(plans, u.subscription_plan_id) :
          ( /\ pl.max_api_keys # NULL
            /\ req["p1"].op = "createApiKey"
            /\ req["p1"].in.user_id = u.id
            /\ req'["p1"] = Idle )
          => IF ActiveApiKeysCount(u.id) < pl.max_api_keys
               THEN /\ resp'["p1"].status = "ok"
                    /\ ActiveApiKeysCount(u.id)' = ActiveApiKeysCount(u.id) + 1
               ELSE /\ resp'["p1"].status = "limit_reached"
                    /\ keys' = keys
     /\ \A k \in Rows(keys) :
          ( /\ req["p1"].op = "updateApiKey"
            /\ req["p1"].in = [id |-> k.id, is_active |-> FALSE]
            /\ k.is_active
            /\ req'["p1"] = Idle )
          => /\ resp'["p1"].status = "ok"
             /\ ActiveApiKeysCount(k.user_id)' = ActiveApiKeysCount(k.user_id) - 1
    ]_vars

\* The scenario has run to its end for the largest limit: MaxLimit + 1 keys
\* were created for a user on a plan with max_api_keys = MaxLimit, one of them
\* is inactive, and the last createApiKey was refused.
C2_Witness ==
  /\ resp["p1"].op = "createApiKey"
  /\ resp["p1"].status = "limit_reached"
  /\ \E u \in Rows(users) : \E pl \in ById(plans, u.subscription_plan_id) :
       /\ pl.max_api_keys = MaxLimit
       /\ ActiveApiKeysCount(u.id) = MaxLimit
       /\ Cardinality({k \in Rows(keys) : k.user_id = u.id}) = MaxLimit + 1

----------------------------------------------------------------------------
(* C3: two createApiKey requests served concurrently. *)

\* The store after createSubscriptionPlan (max_api_keys = n), createUser on
\* that plan and n - 1 createApiKey calls for that user, made one at a time.
OneBelowLimit(n) ==
  /\ plans = <<[id |-> 1, name |-> "basic", description |-> NullText,
                price |-> 999, max_api_keys |-> n,
                max_monthly_calls |-> NULL, created_at |-> 0]>>
  /\ users = <<[id |-> 1, email |-> "a@x", name |-> "n", created_at |-> 0,
                updated_at |-> 0, subscription_plan_id |-> 1]>>
  /\ keys = [i \in 1..(n - 1) |->
               [id |-> i, user_id |-> 1, key_hash |-> "h1", name |-> "k",
                is_active |-> TRUE, created_at |-> 0, last_used_at |-> NULL]]
  /\ voices = <<>> /\ sessions = <<>> /\ turns = <<>>
  /\ nextId = [plans |-> 2, users |-> 2, keys |-> n,
               voices |-> 1, sessions |-> 1, turns |-> 1]

InitKeyRace == (\E n \in 1..MaxLimit : OneBelowLimit(n)) /\ NoRequests

KeyRaceInputs ==
  {[user_id |-> 1, key_hash |-> h, name |-> "k"] : h \in {"h1", "h2"}}

NextKeyRace ==
  \/ \E p \in Procs, i \in KeyRaceInputs : CallCreateApiKey(p, i)
  \/ \E p \in Procs : CreateApiKey_SelectUser(p)
  \/ \E p \in Procs : CreateApiKey_SelectPlan(p)
  \/ \E p \in Procs : CreateApiKey_CountKeys(p)
  \/ \E p \in Procs : CreateApiKey_Insert(p)

SpecKeyRace == InitKeyRace /\ [][NextKeyRace]_vars

\* C3: createApiKey requests served two at a time never leave the user with
\* more than max_api_keys + 1 active keys: at most one over the limit.
C3_AtMostOneOver ==
  \A u \in Rows(users) : \A pl \in ById(plans, u.subscription_plan_id) :
    pl.max_api_keys # NULL => ActiveApiKeysCount(u.id) <= pl.max_api_keys + 1

\* Both requests passed the count check at max_api_keys - 1 active keys and
\* both inserted: the user is exactly one over the limit.
C3_Witness ==
  /\ \A p \in Procs : resp[p].op = "createApiKey" /\ resp[p].status = "ok"
  /\ \E u \in Rows(users) : \E pl \in ById(plans, u.subscription_plan_id) :
       /\ pl.max_api_keys = MaxLimit
       /\ ActiveApiKeysCount(u.id) = pl.max_api_keys + 1
       /\ nextId.keys = pl.max_api_keys + 2

----------------------------------------------------------------------------
(* Call sessions and turns. *)

TwilioCallIds == {"CA1", "CA2"}

\* turnRoleEnum / turnRoleSchema
Roles == {"user", "assistant", "tool"}

PlainUserInputs ==
  {[email |-> e, name |-> "n", subscription_plan_id |-> NULL] : e \in Emails}

\* createCallSessionInputSchema
CallSessionInputs ==
  {[twilio_call_id |-> c, user_id |-> u, start_time |-> 0] :
     c \in TwilioCallIds, u \in 1..MaxUsers}

\* endCallSessionInputSchema
EndCallSessionInputs ==
  {[id |-> i, end_time |-> t] : i \in 1..MaxSessions, t \in Times}

\* createTurnInputSchema: text and latency_ms are nullable.
TurnInputs ==
  {[call_session_id |-> i, role |-> r, text |-> NullText, latency_ms |-> NULL] :
     i \in 1..MaxSessions, r \in {"user"}}

\* One client that awaits every call before it makes the next: users, call
\* sessions and turns.
NextCalls ==
  \/ \E i \in {u \in PlainUserInputs : u.email = "a@x"} : CallCreateUser("p1", i)
  \/ CreateUser_Insert("p1")
  \/ \E i \in CallSessionInputs : CallCreateCallSession("p1", i)
  \/ CreateCallSession_SelectUser("p1")
  \/ CreateCallSession_Insert("p1")
  \/ \E i \in EndCallSessionInputs : CallEndCallSession("p1", i)
  \/ EndCallSession_Select("p1")
  \/ EndCallSession_Update("p1")
  \/ \E i \in TurnInputs : CallCreateTurn("p1", i)
  \/ CreateTurn_SelectSession("p1")
  \/ CreateTurn_Insert("p1")

SpecCalls == Init /\ [][NextCalls]_vars

\* The store after createUser and createCallSession: one open session.
OpenSession ==
  /\ users = <<[id |-> 1, email |-> "a@x", name |-> "n", created_at |-> 0,
                updated_at |-> 0, subscription_plan_id |-> NULL]>>
  /\ sessions = <<[id |-> 1, twilio_call_id |-> "CA1", user_id |-> 1,
                   start_time |-> 0, end_time |-> NULL, created_at |-> 0]>>
  /\ plans = <<>> /\ keys = <<>> /\ voices = <<>> /\ turns = <<>>
  /\ nextId = [plans |-> 1, users |-> 2, keys |-> 1,
               voices |-> 1, sessions |-> 2, turns |-> 1]

InitCallRace == OpenSession /\ NoRequests

\* endCallSession and createTurn requests for that session, served two at a
\* time.
NextCallRace ==
  \/ \E p \in Procs, t \in Times :
        CallEndCallSession(p, [id |-> 1, end_time |-> t])
  \/ \E p \in Procs : EndCallSession_Select(p)
  \/ \E p \in Procs : EndCallSession_Update(p)
  \/ \E p \in Procs, r \in Roles :
        CallCreateTurn(p, [call_session_id |-> 1, role |-> r,
                           text |-> NullText, latency_ms |-> NULL])
  \/ \E p \in Procs : CreateTurn_SelectSession(p)
  \/ \E p \in Procs : CreateTurn_Insert(p)

SpecCallRace == InitCallRace /\ [][NextCallRace]_vars

----------------------------------------------------------------------------
(* C4 - C7: the life cycle of a call session. *)

\* C4: once a call session's end_time is non-null it never changes again,
\* whatever endCallSession requests are served and however they interleave.
C4_EndTimeImmutable ==
  [][\A s \in Rows(sessions) :
       s.end_time # NULL => \A s2 \in ById(sessions', s.id) : s2.end_time = s.end_time
    ]_vars

\* C5: every turn is inserted while its parent call session has
\* end_time = null, whatever createTurn and endCallSession requests interleave.
C5_TurnsOnlyWhileOpen ==
  [][\A t \in Rows(turns') :
       t \notin Rows(turns) =>
         \A s \in ById(sessions, t.call_session_id) : s.end_time = NULL
    ]_vars

\* C6: one call at a time, createTurn for an existing session succeeds and
\* inserts exactly one turn, of that session, while the session's end_time is
\* null; once the session is ended it fails with 'Cannot add turn to ended
\* call session' and the turns getTurnsByCallSession selects are those from
\* before the call.
C6_TurnsFollowSessionState ==
  [][\A s \in Rows(sessions) :
       ( /\ req["p1"].op = "createTurn"
         /\ req["p1"].in.call_session_id = s.id
         /\ req'["p1"] = Idle )
       => IF s.end_time = NULL
            THEN /\ resp'["p1"].status = "ok"
                 /\ Len(turns') = Len(turns) + 1
                 /\ SubSeq(turns', 1, Len(turns)) = turns
                 /\ turns'[Len(turns')].call_session_id = s.id
            ELSE /\ resp'["p1"].status = "session_ended"
                 /\ TurnsOfCallSession(s.id)' = TurnsOfCallSession(s.id)
                 /\ turns' = turns
    ]_vars

\* A turn was recorded, the session was ended, and the next createTurn failed.
C6_Witness ==
  /\ resp["p1"].op = "createTurn"
  /\ resp["p1"].status = "session_ended"
  /\ TurnsOfCallSession(resp["p1"].in.call_session_id) # {}

\* C7: endCallSession on a session whose end_time is already non-null fails
\* with 'already ended' whatever end_time is supplied, and on an id that
\* matches no session fails with 'not found'; either way every table is as
\* it was.
C7_EndFailsUnchanged ==
  [][( /\ req["p1"].op = "endCallSession"
       /\ req'["p1"] = Idle
       /\ \A s \in ById(sessions, req["p1"].in.id) : s.end_time # NULL )
     => /\ resp'["p1"].status =
             IF ById(sessions, req["p1"].in.id) = {}
               THEN "not_found" ELSE "already_ended"
        /\ store' = store
    ]_vars

\* An ended session was ended again with an end_time earlier than the stored
\* one, and the call failed.
C7_Witness ==
  /\ resp["p1"].op = "endCallSession"
  /\ resp["p1"].status = "already_ended"
  /\ \E s \in ById(sessions, resp["p1"].in.id) :
       resp["p1"].in.end_time < s.end_time

----------------------------------------------------------------------------
(* C8 - C10: unique keys. *)

\* createSubscriptionPlan requests served two at a time.
NextPlanRace ==
  \/ \E p \in Procs, i \in PlanInputs(PlanNames) : CallCreateSubscriptionPlan(p, i)
  \/ \E p \in Procs : CreateSubscriptionPlan_Select(p)
  \/ \E p \in Procs : CreateSubscriptionPlan_Insert(p)

SpecPlanRace == Init /\ [][NextPlanRace]_vars

\* C8: the plans table holds at most one row per name.
C8_PlanNamesUnique ==
  \A i, j \in 1..Len(plans) : plans[i].name = plans[j].name => i = j

\* createVoiceInputSchema
VoiceInputs ==
  {[name |-> n, identifier |-> i, description |-> NullText] :
     n \in {"alice", "bob"}, i \in {"v1", "v2"}}

NamedUserInputs ==
  {[email |-> e, name |-> n, subscription_plan_id |-> NULL] :
     e \in Emails, n \in {"n", "m"}}

\* One client that awaits every call before it makes the next: the four
\* creates with a unique key.
NextCreates ==
  \/ \E i \in PlanInputs({"basic"}) : CallCreateSubscriptionPlan("p1", i)
  \/ CreateSubscriptionPlan_Select("p1")
  \/ CreateSubscriptionPlan_Insert("p1")
  \/ \E i \in {u \in NamedUserInputs : u.email = "a@x" \/ u.name = "n"} : CallCreateUser("p1", i)
  \/ CreateUser_Insert("p1")
  \/ \E i \in {v \in VoiceInputs : v.identifier = "v1"} : CallCreateVoice("p1", i)
  \/ CreateVoice_Insert("p1")
  \/ \E i \in CallSessionInputs : CallCreateCallSession("p1", i)
  \/ CreateCallSession_SelectUser("p1")
  \/ CreateCallSession_Insert("p1")

SpecCreates == Init /\ [][NextCreates]_vars

\* The unique key of the create request in flight is held by a stored row.
KeyInUse(r) ==
  \/ r.op = "createUser" /\ \E u \in Rows(users) : u.email = r.in.email
  \/ r.op = "createSubscriptionPlan" /\ \E pl \in Rows(plans) : pl.name = r.in.name
  \/ r.op = "createVoice" /\ \E v \in Rows(voices) : v.identifier = r.in.identifier
  \/ r.op = "createCallSession"
       /\ \E c \in Rows(sessions) : c.twilio_call_id = r.in.twilio_call_id

\* C9: a create call whose unique key (email, plan name, voice identifier,
\* twilio_call_id) is already used fails, and every table is as it was: no
\* row added, none changed.
C9_DuplicateCreateFails ==
  [][( /\ req["p1"] # Idle
       /\ KeyInUse(req["p1"])
       /\ req'["p1"] = Idle )
     => /\ resp'["p1"].status # "ok"
        /\ <<plans, users, keys, voices, sessions, turns>>' =
             <<plans, users, keys, voices, sessions, turns>>
    ]_vars

\* createCallSession was refused for its twilio_call_id, and the row that
\* holds it is not the row the request would have written.
C9_Witness ==
  /\ resp["p1"].op = "createCallSession"
  /\ resp["p1"].status = "unique_violation"
  /\ \E c \in Rows(sessions) :
       /\ c.twilio_call_id = resp["p1"].in.twilio_call_id
       /\ c.user_id # resp["p1"].in.user_id

\* createUser and updateUser requests served two at a time.
NextUserRace ==
  \/ \E p \in Procs, i \in PlainUserInputs : CallCreateUser(p, i)
  \/ \E p \in Procs : CreateUser_Insert(p)
  \/ \E p \in Procs, i \in UpdateUserEmailInputs : CallUpdateUser(p, i)
  \/ \E p \in Procs : UpdateUser_SelectUser(p)
  \/ \E p \in Procs : UpdateUser_CheckEmail(p)
  \/ \E p \in Procs : UpdateUser_Update(p)

SpecUserRace == Init /\ [][NextUserRace]_vars

\* C10: all user rows have pairwise distinct emails.
C10_EmailsDistinct ==
  \A i, j \in 1..Len(users) : users[i].email = users[j].email => i = j

\* An updateUser passed its own email check, another request took the email
\* in between, and the store refused the update.
C10_Witness ==
  \E p \in Procs :
    /\ resp[p].op = "updateUser"
    /\ resp[p].status = "unique_violation"
    /\ Len(users) = 2

----------------------------------------------------------------------------
(* C11 - C13: createUser and updateUser, one call at a time. *)

\* updateUserInputSchema: every subset of the optional fields email, name and
\* subscription_plan_id, the latter a plan id or an explicit null.
UpdateUserInputs ==
  LET ids == 1..MaxUsers
      pls == {NULL} \cup (1..MaxPlans)
  IN  {[id |-> i] : i \in ids}
        \cup UpdateUserEmailInputs
        \cup {[id |-> i, name |-> "m"] : i \in ids}
        \cup UpdateUserPlanInputs
        \cup {[id |-> i, email |-> e, name |-> "m"] : i \in ids, e \in Emails}
        \cup {[id |-> i, email |-> e, subscription_plan_id |-> pl] :
                i \in ids, e \in Emails, pl \in pls}
        \cup {[id |-> i, name |-> "m", subscription_plan_id |-> pl] :
                i \in ids, pl \in pls}
        \cup {[id |-> i, email |-> e, name |-> "m", subscription_plan_id |-> pl] :
                i \in ids, e \in Emails, pl \in pls}

\* createUser's inputs: subscription_plan_id is a plan id or null
\* (createUserInputSchema), or undefined, which the handler also tests for.
CreateUserInputs ==
  UserInputs \cup {[email |-> e, name |-> "n"] : e \in Emails}

\* One client that awaits every call before it makes the next: users created
\* and their email and name updated, while time passes.
NextEmails ==
  \/ \E i \in PlainUserInputs : CallCreateUser("p1", i)
  \/ CreateUser_Insert("p1")
  \/ \E i \in {u \in UpdateUserInputs : DOMAIN u \subseteq {"id", "email", "name"}} :
        CallUpdateUser("p1", i)
  \/ UpdateUser_SelectUser("p1")
  \/ UpdateUser_CheckEmail("p1")
  \/ UpdateUser_Update("p1")
  \/ Tick

SpecEmails == Init /\ [][NextEmails]_vars

\* One client that awaits every call before it makes the next: plans and
\* users, every field of a user updated.
NextUsers ==
  \/ \E i \in {pl \in PlanInputs({"basic"}) : pl.max_api_keys = NULL} :
        CallCreateSubscriptionPlan("p1", i)
  \/ CreateSubscriptionPlan_Select("p1")
  \/ CreateSubscriptionPlan_Insert("p1")
  \/ \E i \in CreateUserInputs : CallCreateUser("p1", i)
  \/ CreateUser_SelectPlan("p1")
  \/ CreateUser_Insert("p1")
  \/ \E i \in UpdateUserInputs : CallUpdateUser("p1", i)
  \/ UpdateUser_SelectUser("p1")
  \/ UpdateUser_CheckEmail("p1")
  \/ UpdateUser_Update("p1")

SpecUsers == Init /\ [][NextUsers]_vars

\* C11: updateUser with an email that another user holds fails with 'already
\* in use' and leaves the target user's row (email, name,
\* subscription_plan_id, updated_at) as it was; updateUser with the user's own
\* current email succeeds.
C11_EmailConflict ==
  [][\A u \in Rows(users) :
       ( /\ req["p1"].op = "updateUser"
         /\ req["p1"].in.id = u.id
         /\ Has(req["p1"].in, "email")
         /\ req'["p1"] = Idle )
       => /\ (\E o \in Rows(users) : o.id # u.id /\ o.email = req["p1"].in.email)
               => /\ resp'["p1"].status = "email_in_use"
                  /\ ById(users', u.id) = {u}
                  /\ users' = users
          /\ req["p1"].in.email = u.email => resp'["p1"].status = "ok"
    ]_vars

\* An updateUser asked for the other user's email at a time later than the
\* target's updated_at, and was refused.
C11_Witness ==
  /\ resp["p1"].op = "updateUser"
  /\ resp["p1"].status = "email_in_use"
  /\ \E u \in ById(users, resp["p1"].in.id) :
       /\ u.email # resp["p1"].in.email
       /\ u.updated_at < now
       /\ Has(resp["p1"].in, "name")

\* C12: createUser with a non-null subscription_plan_id that matches no plan
\* fails with 'does not exist' and inserts no user row; with
\* subscription_plan_id null or absent it makes no plan lookup, is never
\* refused for the plan, and the row it inserts stores null.
C12_PlanChecked ==
  [][/\ ( /\ req["p1"] = Idle
          /\ req'["p1"] # Idle
          /\ req'["p1"].op = "createUser" )
        => ( req'["p1"].step = "selectPlan"
               <=> ( /\ Has(req'["p1"].in, "subscription_plan_id")
                     /\ req'["p1"].in.subscription_plan_id # NULL ) )
     /\ ( /\ req["p1"].op = "createUser"
          /\ req'["p1"] = Idle )
        => IF /\ Has(req["p1"].in, "subscription_plan_id")
              /\ req["p1"].in.subscription_plan_id # NULL
             THEN ById(plans, req["p1"].in.subscription_plan_id) = {}
                    => /\ resp'["p1"].status = "plan_does_not_exist"
                       /\ users' = users
             ELSE /\ resp'["p1"].status # "plan_does_not_exist"
                  /\ resp'["p1"].status = "ok"
                       => /\ Len(users') = Len(users) + 1
                          /\ users'[Len(users')].subscription_plan_id = NULL
    ]_vars

\* A plan and a user exist, and a createUser naming another plan id was
\* refused.
C12_Witness ==
  /\ resp["p1"].op = "createUser"
  /\ resp["p1"].status = "plan_does_not_exist"
  /\ Len(plans) = 1
  /\ Len(users) = 1

\* C13: a successful updateUser sets each of email, name and
\* subscription_plan_id that the input holds to the input's value (an explicit
\* null clears subscription_plan_id) and keeps each that the input lacks; the
\* user's id and created_at, and every other user's row, are as they were.
C13_OnlyGivenFieldsChange ==
  [][\A i \in 1..Len(users) :
       ( /\ req["p1"].op = "updateUser"
         /\ req'["p1"] = Idle
         /\ resp'["p1"].status = "ok"
         /\ req["p1"].in.id = users[i].id )
       => /\ Len(users') = Len(users)
          /\ users'[i].email =
               IF Has(req["p1"].in, "email")
                 THEN req["p1"].in.email ELSE users[i].email
          /\ users'[i].name =
               IF Has(req["p1"].in, "name")
                 THEN req["p1"].in.name ELSE users[i].name
          /\ users'[i].subscription_plan_id =
               IF Has(req["p1"].in, "subscription_plan_id")
                 THEN req["p1"].in.subscription_plan_id
                 ELSE users[i].subscription_plan_id
          /\ users'[i].id = users[i].id
          /\ users'[i].created_at = users[i].created_at
          /\ \A j \in 1..Len(users) : j # i => users'[j] = users[j]
    ]_vars

\* An updateUser that gave only a name succeeded for one of two users, and
\* that user still has a plan.
C13_Witness ==
  /\ resp["p1"].op = "updateUser"
  /\ resp["p1"].status = "ok"
  /\ DOMAIN resp["p1"].in = {"id", "name"}
  /\ Len(users) = 2
  /\ \E u \in ById(users, resp["p1"].in.id) :
       u.name = "m" /\ u.subscription_plan_id # NULL

----------------------------------------------------------------------------
(* C14: updateApiKey, one call at a time. *)

\* updateApiKeyInputSchema: every subset of the optional fields name and
\* is_active.
UpdateApiKeyFieldInputs ==
  LET ids == 1..MaxKeys
  IN  {[id |-> i] : i \in ids}
        \cup {[id |-> i, name |-> "k2"] : i \in ids}
        \cup UpdateApiKeyInputs
        \cup {[id |-> i, name |-> "k2", is_active |-> a] : i \in ids, a \in BOOLEAN}

\* createApiKeyInputSchema, with more than one key_hash.
ApiKeyFieldInputs ==
  {[user_id |-> u, key_hash |-> h, name |-> "k"] :
     u \in 1..MaxUsers, h \in {"h1", "h2"}}

\* One client that awaits every call before it makes the next: a user without
\* a plan, API keys created and updated.
NextKeyUpdates ==
  \/ \E i \in {u \in PlainUserInputs : u.email = "a@x"} : CallCreateUser("p1", i)
  \/ CreateUser_Insert("p1")
  \/ \E i \in ApiKeyFieldInputs : CallCreateApiKey("p1", i)
  \/ CreateApiKey_SelectUser("p1")
  \/ CreateApiKey_Insert("p1")
  \/ \E i \in UpdateApiKeyFieldInputs : CallUpdateApiKey("p1", i)
  \/ UpdateApiKey_Select("p1")
  \/ UpdateApiKey_Update("p1")

SpecKeyUpdates == Init /\ [][NextKeyUpdates]_vars

\* C14: a successful updateApiKey sets the name and is_active that the input
\* holds and keeps the one it lacks; the key's id, key_hash, user_id,
\* created_at and last_used_at, and every other key's row, are as they were.
\* updateApiKey on an id that matches no key fails with 'not found' and every
\* table is as it was.
C14_OnlyGivenKeyFieldsChange ==
  [][/\ \A i \in 1..Len(keys) :
          ( /\ req["p1"].op = "updateApiKey"
            /\ req'["p1"] = Idle
            /\ resp'["p1"].status = "ok"
            /\ req["p1"].in.id = keys[i].id )
          => /\ Len(keys') = Len(keys)
             /\ keys'[i].name =
                  IF Has(req["p1"].in, "name")
                    THEN req["p1"].in.name ELSE keys[i].name
             /\ keys'[i].is_active =
                  IF Has(req["p1"].in, "is_active")
                    THEN req["p1"].in.is_active ELSE keys[i].is_active
             /\ keys'[i].id = keys[i].id
             /\ keys'[i].key_hash = keys[i].key_hash
             /\ keys'[i].user_id = keys[i].user_id
             /\ keys'[i].created_at = keys[i].created_at
             /\ keys'[i].last_used_at = keys[i].last_used_at
             /\ \A j \in 1..Len(keys) : j # i => keys'[j] = keys[j]
     /\ ( /\ req["p1"].op = "updateApiKey"
          /\ req'["p1"] = Idle
          /\ ById(keys, req["p1"].in.id) = {} )
        => /\ resp'["p1"].status = "not_found"
           /\ store' = store
    ]_vars

\* An updateApiKey that gave only a name succeeded on a key that had been
\* deactivated before, with another key stored.
C14_Witness ==
  /\ resp["p1"].op = "updateApiKey"
  /\ resp["p1"].status = "ok"
  /\ DOMAIN resp["p1"].in = {"id", "name"}
  /\ Len(keys) >= 2
  /\ \E k \in ById(keys, resp["p1"].in.id) :
       k.name = "k2" /\ ~k.is_active

----------------------------------------------------------------------------
(* C15: the effect of endCallSession, one call at a time. *)

\* C15: a successful endCallSession sets the session's end_time to the
\* supplied value and leaves its id, twilio_call_id, user_id, start_time and
\* created_at as they were; no other session and no turn changes.
C15_OnlyEndTimeChanges ==
  [][\A i \in 1..Len(sessions) :
       ( /\ req["p1"].op = "endCallSession"
         /\ req'["p1"] = Idle
         /\ resp'["p1"].status = "ok"
         /\ req["p1"].in.id = sessions[i].id )
       => /\ Len(sessions') = Len(sessions)
          /\ sessions'[i].end_time = req["p1"].in.end_time
          /\ sessions'[i].id = sessions[i].id
          /\ sessions'[i].twilio_call_id = sessions[i].twilio_call_id
          /\ sessions'[i].user_id = sessions[i].user_id
          /\ sessions'[i].start_time = sessions[i].start_time
          /\ sessions'[i].created_at = sessions[i].created_at
          /\ \A j \in 1..Len(sessions) : j # i => sessions'[j] = sessions[j]
          /\ turns' = turns
    ]_vars

\* One of two sessions was ended with a turn recorded; the other session is
\* still open.
C15_Witness ==
  /\ resp["p1"].op = "endCallSession"
  /\ resp["p1"].status = "ok"
  /\ Len(sessions) = 2
  /\ turns # <<>>
  /\ \E s \in Rows(sessions) :
       /\ s.id = resp["p1"].in.id
       /\ s.end_time = resp["p1"].in.end_time
       /\ s.end_time > s.start_time
  /\ \E s \in Rows(sessions) : s.id # resp["p1"].in.id /\ s.end_time = NULL

----------------------------------------------------------------------------
(* C16, C17: createApiKey, one call at a time. *)

\* The limit check of createApiKey does not apply to the user: no plan id, a
\* plan id that matches no plan, or a plan without max_api_keys.
NoLimitFor(u) ==
  \/ u.subscription_plan_id = NULL
  \/ ById(plans, u.subscription_plan_id) = {}
  \/ \E pl \in ById(plans, u.subscription_plan_id) : pl.max_api_keys = NULL

\* C16: createApiKey is never refused for the limit, and adds its key,
\* however many active keys the user has, when the user's subscription_plan_id
\* is null, references a plan whose max_api_keys is null, or references no
\* existing plan.
C16_NoLimitWithoutQuota ==
  [][\A u \in Rows(users) :
       ( /\ req["p1"].op = "createApiKey"
         /\ req'["p1"] = Idle
         /\ req["p1"].in.user_id = u.id
         /\ NoLimitFor(u) )
       => /\ resp'["p1"].status # "limit_reached"
          /\ resp'["p1"].status = "ok"
          /\ Len(keys') = Len(keys) + 1
    ]_vars

\* A user whose subscription_plan_id references no plan, while a plan with a
\* limit exists, was given a key beyond every limit of the model.
C16_Witness ==
  /\ resp["p1"].op = "createApiKey"
  /\ resp["p1"].status = "ok"
  /\ \E pl \in Rows(plans) : pl.max_api_keys # NULL
  /\ \E u \in ById(users, resp["p1"].in.user_id) :
       /\ u.subscription_plan_id # NULL
       /\ ById(plans, u.subscription_plan_id) = {}
       /\ ActiveApiKeysCount(u.id) > MaxLimit

\* C17: createApiKey with a user_id that matches no user fails with 'not
\* found' and every table is as it was; a successful call appends exactly one
\* key, with is_active = true, last_used_at = null and the user_id, key_hash
\* and name of the input, and keys are inserted by nothing else.
C17_KeyAsRequested ==
  [][/\ ( /\ req["p1"].op = "createApiKey"
          /\ req'["p1"] = Idle )
        => IF ById(users, req["p1"].in.user_id) = {}
             THEN /\ resp'["p1"].status = "not_found"
                  /\ store' = store
             ELSE IF resp'["p1"].status = "ok"
                    THEN /\ Len(keys') = Len(keys) + 1
                         /\ SubSeq(keys', 1, Len(keys)) = keys
                         /\ keys'[Len(keys')].id = resp'["p1"].id
                         /\ keys'[Len(keys')].is_active = TRUE
                         /\ keys'[Len(keys')].last_used_at = NULL
                         /\ keys'[Len(keys')].user_id = req["p1"].in.user_id
                         /\ keys'[Len(keys')].key_hash = req["p1"].in.key_hash
                         /\ keys'[Len(keys')].name = req["p1"].in.name
                    ELSE keys' = keys
     /\ Len(keys') # Len(keys)
        => /\ req["p1"].op = "createApiKey"
           /\ req'["p1"] = Idle
           /\ resp'["p1"].status = "ok"
    ]_vars

\* A key was created after another key had been deactivated, and a later
\* createApiKey for a user id that matches no user was refused.
C17_Witness ==
  /\ resp["p1"].op = "createApiKey"
  /\ resp["p1"].status = "not_found"
  /\ users # <<>>
  /\ \E k \in Rows(keys) : ~k.is_active
  /\ \E k \in Rows(keys) : k.is_active /\ k.key_hash = "h2"

----------------------------------------------------------------------------
(* C18: createCallSession, one call at a time. *)

\* createCallSessionInputSchema, with more than one start_time.
TimedCallSessionInputs ==
  {[twilio_call_id |-> c, user_id |-> u, start_time |-> t] :
     c \in TwilioCallIds, u \in 1..MaxUsers, t \in Times}

\* One client that awaits every call before it makes the next: users and call
\* sessions.
NextSessions ==
  \/ \E i \in PlainUserInputs : CallCreateUser("p1", i)
  \/ CreateUser_Insert("p1")
  \/ \E i \in TimedCallSessionInputs : CallCreateCallSession("p1", i)
  \/ CreateCallSession_SelectUser("p1")
  \/ CreateCallSession_Insert("p1")

SpecSessions == Init /\ [][NextSessions]_vars

\* C18: createCallSession with a user_id that matches no user fails with
\* 'does not exist' and every table is as it was; a successful call appends
\* one session with end_time = null and the twilio_call_id, user_id and
\* start_time of the input.
C18_SessionAsRequested ==
  [][( /\ req["p1"].op = "createCallSession"
       /\ req'["p1"] = Idle )
     => IF ById(users, req["p1"].in.user_id) = {}
          THEN /\ resp'["p1"].status = "user_does_not_exist"
               /\ store' = store
          ELSE IF resp'["p1"].status = "ok"
                 THEN /\ Len(sessions') = Len(sessions) + 1
                      /\ SubSeq(sessions', 1, Len(sessions)) = sessions
                      /\ sessions'[Len(sessions')].id = resp'["p1"].id
                      /\ sessions'[Len(sessions')].end_time = NULL
                      /\ sessions'[Len(sessions')].twilio_call_id =
                           req["p1"].in.twilio_call_id
                      /\ sessions'[Len(sessions')].user_id = req["p1"].in.user_id
                      /\ sessions'[Len(sessions')].start_time =
                           req["p1"].in.start_time
                 ELSE sessions' = sessions
    ]_vars

\* A session that starts late was created, and a later createCallSession
\* with the same twilio_call_id for a user id that matches no user was refused.
C18_Witness ==
  /\ resp["p1"].op = "createCallSession"
  /\ resp["p1"].status = "user_does_not_exist"
  /\ \E s \in Rows(sessions) :
       /\ s.start_time = MaxTime
       /\ s.end_time = NULL
       /\ s.twilio_call_id = resp["p1"].in.twilio_call_id

----------------------------------------------------------------------------
(* C19: failing calls, one call at a time, over every handler that writes. *)

\* One client that awaits every call before it makes the next: every handler
\* that writes, each with inputs on which it succeeds and inputs on which it
\* fails.
NextAll ==
  \/ \E i \in {pl \in PlanInputs({"basic"}) : pl.max_api_keys = 1} :
        CallCreateSubscriptionPlan("p1", i)
  \/ CreateSubscriptionPlan_Select("p1")
  \/ CreateSubscriptionPlan_Insert("p1")
  \/ \E i \in {u \in UserInputs : u.subscription_plan_id = 1} :
        CallCreateUser("p1", i)
  \/ CreateUser_SelectPlan("p1")
  \/ CreateUser_Insert("p1")
  \/ \E i \in {u \in UpdateUserEmailInputs : u.email = "a@x"} :
        CallUpdateUser("p1", i)
  \/ UpdateUser_SelectUser("p1")
  \/ UpdateUser_CheckEmail("p1")
  \/ UpdateUser_Update("p1")
  \/ \E i \in ApiKeyInputs : CallCreateApiKey("p1", i)
  \/ CreateApiKey_SelectUser("p1")
  \/ CreateApiKey_SelectPlan("p1")
  \/ CreateApiKey_CountKeys("p1")
  \/ CreateApiKey_Insert("p1")
  \/ \E i \in {k \in UpdateApiKeyFieldInputs :
                  ~Has(k, "name") /\ (Has(k, "is_active") => k.is_active)} :
        CallUpdateApiKey("p1", i)
  \/ UpdateApiKey_Select("p1")
  \/ UpdateApiKey_Update("p1")
  \/ \E i \in {v \in VoiceInputs : v.identifier = "v1" /\ v.name = "alice"} :
        CallCreateVoice("p1", i)
  \/ CreateVoice_Insert("p1")
  \/ \E i \in {c \in CallSessionInputs : c.twilio_call_id = "CA1"} :
        CallCreateCallSession("p1", i)
  \/ CreateCallSession_SelectUser("p1")
  \/ CreateCallSession_Insert("p1")
  \/ \E i \in {e \in EndCallSessionInputs : e.end_time = 1} :
        CallEndCallSession("p1", i)
  \/ EndCallSession_Select("p1")
  \/ EndCallSession_Update("p1")
  \/ \E i \in TurnInputs : CallCreateTurn("p1", i)
  \/ CreateTurn_SelectSession("p1")
  \/ CreateTurn_Insert("p1")

SpecAll == Init /\ [][NextAll]_vars

\* C19: a handler invocation that fails leaves the six tables as they were
\* when it was called: no round trip before its last one writes, and the
\* round trip on which it throws does not write.
C19_FailureLeavesTables ==
  [][( /\ req["p1"] # Idle
       /\ (req'["p1"] # Idle \/ resp'["p1"].status # "ok") )
     => <<plans, users, keys, voices, sessions, turns>>' =
          <<plans, users, keys, voices, sessions, turns>>
    ]_vars

\* With rows in the tables, a createApiKey was refused for the limit.
C19_Witness ==
  /\ resp["p1"].op = "createApiKey"
  /\ resp["p1"].status = "limit_reached"
  /\ keys # <<>>
  /\ sessions # <<>>

----------------------------------------------------------------------------
(* C20: getTurnsByCallSession. *)

\* One client that awaits every call before it makes the next, from a store
\* with a user and an open session: a second session, turns recorded as time
\* passes, and the turns of a session read.
NextTurns ==
  \/ \E i \in {c \in CallSessionInputs : c.user_id = 1} :
        CallCreateCallSession("p1", i)
  \/ CreateCallSession_SelectUser("p1")
  \/ CreateCallSession_Insert("p1")
  \/ \E i \in TurnInputs : CallCreateTurn("p1", i)
  \/ CreateTurn_SelectSession("p1")
  \/ CreateTurn_Insert("p1")
  \/ \E id \in 1..MaxSessions : CallGetTurnsByCallSession("p1", id)
  \/ GetTurnsByCallSession_SelectSession("p1")
  \/ GetTurnsByCallSession_SelectTurns("p1")
  \/ Tick

SpecTurns == InitCallRace /\ [][NextTurns]_vars

\* C20: getTurnsByCallSession for an existing session returns every turn whose
\* call_session_id is that session, each once, and no other turn, in
\* non-decreasing created_at order; for an id that matches no session it fails
\* with 'not found'.
C20_TurnsOfSessionInOrder ==
  [][( /\ req["p1"].op = "getTurnsByCallSession"
       /\ req'["p1"] = Idle )
     => IF \E s \in Rows(sessions) : s.id = req["p1"].in.callSessionId
          THEN /\ resp'["p1"].status = "ok"
               /\ {resp'["p1"].rows[i] : i \in 1..Len(resp'["p1"].rows)} =
                    {t \in Rows(turns) :
                       t.call_session_id = req["p1"].in.callSessionId}
               /\ \A i, j \in 1..Len(resp'["p1"].rows) :
                    i < j => /\ resp'["p1"].rows[i] # resp'["p1"].rows[j]
                             /\ resp'["p1"].rows[i].created_at
                                  <= resp'["p1"].rows[j].created_at
          ELSE resp'["p1"].status = "not_found"
    ]_vars

\* The turns of a session were read: two turns recorded at different times,
\* while the other session has a turn of its own.
C20_Witness ==
  /\ resp["p1"].op = "getTurnsByCallSession"
  /\ resp["p1"].status = "ok"
  /\ Len(resp["p1"].rows) = 2
  /\ resp["p1"].rows[1].created_at < resp["p1"].rows[2].created_at
  /\ \E t \in Rows(turns) : t.call_session_id # resp["p1"].in.callSessionId

\* C21: two turns of a session with the same created_at are returned by
\* getTurnsByCallSession in insertion order, the one with the smaller id
\* first.
C21_TiesInInsertionOrder ==
  [][( /\ req["p1"].op = "getTurnsByCallSession"
       /\ req'["p1"] = Idle
       /\ resp'["p1"].status = "ok" )
     => \A i, j \in 1..Len(resp'["p1"].rows) :
          ( /\ i < j
            /\ resp'["p1"].rows[i].created_at = resp'["p1"].rows[j].created_at )
          => resp'["p1"].rows[i].id < resp'["p1"].rows[j].id
    ]_vars

----------------------------------------------------------------------------
(* C22: getSubscriptionPlans. *)

\* One client that awaits every call before it makes the next: plans created
\* and listed.
NextPlans ==
  \/ \E i \in PlanInputs(PlanNames) : CallCreateSubscriptionPlan("p1", i)
  \/ CreateSubscriptionPlan_Select("p1")
  \/ CreateSubscriptionPlan_Insert("p1")
  \/ CallGetSubscriptionPlans("p1")
  \/ GetSubscriptionPlans_Select("p1")

SpecPlans == Init /\ [][NextPlans]_vars

\* C22: getSubscriptionPlans returns every plan exactly once, in ascending
\* id.
C22_PlansInInsertionOrder ==
  [][( /\ req["p1"].op = "getSubscriptionPlans"
       /\ req'["p1"] = Idle )
     => /\ resp'["p1"].status = "ok"
        /\ Len(resp'["p1"].rows) = Len(plans)
        /\ \A i \in 1..Len(plans) : resp'["p1"].rows[i] = plans[i]
        /\ \A i, j \in 1..Len(resp'["p1"].rows) :
             i < j => resp'["p1"].rows[i].id < resp'["p1"].rows[j].id
    ]_vars

----------------------------------------------------------------------------
(* C23: getApiKeysByUser and getCallSessionsByUser. *)

\* The store after two createUser calls.
TwoUsers ==
  /\ users = <<[id |-> 1, email |-> "a@x", name |-> "n", created_at |-> 0,
                updated_at |-> 0, subscription_plan_id |-> NULL],
               [id |-> 2, email |-> "b@x", name |-> "n", created_at |-> 0,
                updated_at |-> 0, subscription_plan_id |-> NULL]>>
  /\ plans = <<>> /\ keys = <<>> /\ voices = <<>>
  /\ sessions = <<>> /\ turns = <<>>
  /\ nextId = [plans |-> 1, users |-> 3, keys |-> 1,
               voices |-> 1, sessions |-> 1, turns |-> 1]

InitLists == TwoUsers /\ NoRequests

\* One client that awaits every call before it makes the next, from a store
\* with two users: their keys created and deactivated, their sessions opened
\* and ended, and both listed by user, also for a user id that matches no
\* user.
NextLists ==
  \/ \E i \in {k \in ApiKeyInputs : k.user_id <= 2} : CallCreateApiKey("p1", i)
  \/ CreateApiKey_SelectUser("p1")
  \/ CreateApiKey_Insert("p1")
  \/ \E i \in {k \in UpdateApiKeyInputs : ~k.is_active} : CallUpdateApiKey("p1", i)
  \/ UpdateApiKey_Select("p1")
  \/ UpdateApiKey_Update("p1")
  \/ \E i \in {c \in CallSessionInputs :
                  c.user_id <= 2 /\ (c.twilio_call_id = "CA1" <=> c.user_id = 1)} :
        CallCreateCallSession("p1", i)
  \/ CreateCallSession_SelectUser("p1")
  \/ CreateCallSession_Insert("p1")
  \/ \E i \in {e \in EndCallSessionInputs : e.end_time = 1} :
        CallEndCallSession("p1", i)
  \/ EndCallSession_Select("p1")
  \/ EndCallSession_Update("p1")
  \/ \E u \in 1..3 : CallGetApiKeysByUser("p1", u)
  \/ GetApiKeysByUser_SelectUser("p1")
  \/ GetApiKeysByUser_SelectKeys("p1")
  \/ \E u \in 1..3 : CallGetCallSessionsByUser("p1", u)
  \/ GetCallSessionsByUser_SelectUser("p1")
  \/ GetCallSessionsByUser_SelectSessions("p1")

SpecLists == InitLists /\ [][NextLists]_vars

\* C23: for an existing user, getApiKeysByUser returns every key whose user_id
\* is that user, active or not, each once and no other key, and
\* getCallSessionsByUser every call session whose user_id is that user, open
\* or ended, each once and no other session; for an id that matches no user
\* both fail with 'not found'.
C23_RowsOfUser ==
  [][/\ ( /\ req["p1"].op = "getApiKeysByUser"
          /\ req'["p1"] = Idle )
        => IF \E u \in Rows(users) : u.id = req["p1"].in.userId
             THEN /\ resp'["p1"].status = "ok"
                  /\ {resp'["p1"].rows[i] : i \in 1..Len(resp'["p1"].rows)} =
                       {k \in Rows(keys) : k.user_id = req["p1"].in.userId}
                  /\ \A i, j \in 1..Len(resp'["p1"].rows) :
                       i # j => resp'["p1"].rows[i] # resp'["p1"].rows[j]
             ELSE resp'["p1"].status = "not_found"
     /\ ( /\ req["p1"].op = "getCallSessionsByUser"
          /\ req'["p1"] = Idle )
        => IF \E u \in Rows(users) : u.id = req["p1"].in.userId
             THEN /\ resp'["p1"].status = "ok"
                  /\ {resp'["p1"].rows[i] : i \in 1..Len(resp'["p1"].rows)} =
                       {c \in Rows(sessions) : c.user_id = req["p1"].in.userId}
                  /\ \A i, j \in 1..Len(resp'["p1"].rows) :
                       i # j => resp'["p1"].rows[i] # resp'["p1"].rows[j]
             ELSE resp'["p1"].status = "not_found"
    ]_vars

\* The keys of a user were listed: an active and an inactive one, while
\* another user has a key and there are an open and an ended session.
C23_Witness ==
  /\ resp["p1"].op = "getApiKeysByUser"
  /\ resp["p1"].status = "ok"
  /\ Len(resp["p1"].rows) = 2
  /\ \E i, j \in 1..2 : resp["p1"].rows[i].is_active /\ ~resp["p1"].rows[j].is_active
  /\ \E k \in Rows(keys) : k.user_id # resp["p1"].in.userId
  /\ \E c \in Rows(sessions) : c.end_time = NULL
  /\ \E c \in Rows(sessions) : c.end_time # NULL

----------------------------------------------------------------------------
(* C24: updated_at. *)

\* C24: a successful updateUser, also one whose input holds only the id, sets
\* updated_at to the instant at which the handler read the clock, which is not
\* later than the present; when the clock has advanced since the row was last
\* written, updated_at is strictly later than it was; created_at is as it was.
C24_UpdatedAtRefreshed ==
  [][\A i \in 1..Len(users) :
       ( /\ req["p1"].op = "updateUser"
         /\ req'["p1"] = Idle
         /\ resp'["p1"].status = "ok"
         /\ req["p1"].in.id = users[i].id )
       => /\ users'[i].updated_at = req["p1"].loc.updated_at
          /\ users'[i].updated_at <= now
          /\ users[i].updated_at < req["p1"].loc.updated_at
               => users'[i].updated_at > users[i].updated_at
          /\ users'[i].created_at = users[i].created_at
    ]_vars

\* An updateUser whose input holds only the id succeeded after the clock had
\* advanced: the user's updated_at is the present and later than created_at,
\* and email and name are those of the creation.
C24_Witness ==
  /\ resp["p1"].op = "updateUser"
  /\ resp["p1"].status = "ok"
  /\ DOMAIN resp["p1"].in = {"id"}
  /\ \E u \in ById(users, resp["p1"].in.id) :
       /\ u.updated_at = now
       /\ u.updated_at > u.created_at
       /\ u.name = "n"

----------------------------------------------------------------------------
(* C25: the ids of the rows. *)

\* From the table `old` to the table `new`: the rows keep their ids, and a
\* row that was added has an id greater than every id before it.
IdsGrow(old, new) ==
  new # old =>
    /\ Len(new) >= Len(old)
    /\ \A i \in 1..Len(old) : new[i].id = old[i].id
    /\ \A i \in 1..Len(old) : \A j \in (Len(old) + 1)..Len(new) :
         old[i].id < new[j].id

\* C25: in each table, a successful create returns the id of the row it
\* added, which is greater than the id of every row created before; ids are
\* in creation order, none is given twice, and a row keeps its id.
C25_IdsFreshAndStable ==
  [][/\ IdsGrow(plans, plans') /\ IdsGrow(users, users')
     /\ IdsGrow(keys, keys') /\ IdsGrow(voices, voices')
     /\ IdsGrow(sessions, sessions') /\ IdsGrow(turns, turns')
     /\ ( /\ req["p1"] # Idle
          /\ req'["p1"] = Idle
          /\ resp'["p1"].status = "ok"
          /\ req["p1"].op \in {"createSubscriptionPlan", "createUser",
                               "createApiKey", "createVoice",
                               "createCallSession", "createTurn"} )
        => LET old == CASE req["p1"].op = "createSubscriptionPlan" -> plans
                        [] req["p1"].op = "createUser" -> users
                        [] req["p1"].op = "createApiKey" -> keys
                        [] req["p1"].op = "createVoice" -> voices
                        [] req["p1"].op = "createCallSession" -> sessions
                        [] req["p1"].op = "createTurn" -> turns
               new == CASE req["p1"].op = "createSubscriptionPlan" -> plans'
                        [] req["p1"].op = "createUser" -> users'
                        [] req["p1"].op = "createApiKey" -> keys'
                        [] req["p1"].op = "createVoice" -> voices'
                        [] req["p1"].op = "createCallSession" -> sessions'
                        [] req["p1"].op = "createTurn" -> turns'
           IN  /\ Len(new) = Len(old) + 1
               /\ new[Len(new)].id = resp'["p1"].id
               /\ \A i \in 1..Len(old) : old[i].id # resp'["p1"].id
    ]_vars

\* A second user, a second key and a second turn were created, the turn last.
C25_Witness ==
  /\ resp["p1"].op = "createTurn"
  /\ resp["p1"].status = "ok"
  /\ resp["p1"].id = 2
  /\ Len(turns) = 2
  /\ Len(users) = 2
  /\ Len(keys) = 2

----------------------------------------------------------------------------
(* C26: plans, voices and turns are written once. *)

\* From the table `old` to the table `new`: every row is still there, with
\* the values it had.
RowsKept(old, new) ==
  new # old =>
    /\ Len(new) >= Len(old)
    /\ \A i \in 1..Len(old) : new[i] = old[i]

\* C26: no operation modifies or deletes a subscription plan, a voice or a
\* turn: every such row of a state is in every later state with the same
\* field values.
C26_PlansVoicesTurnsKept ==
  [][/\ RowsKept(plans, plans')
     /\ RowsKept(voices, voices')
     /\ RowsKept(turns, turns')
    ]_vars

\* With a plan, a voice and a turn stored, the session of the turn was ended.
C26_Witness ==
  /\ resp["p1"].op = "endCallSession"
  /\ resp["p1"].status = "ok"
  /\ plans # <<>>
  /\ voices # <<>>
  /\ \E t \in Rows(turns) : t.call_session_id = resp["p1"].in.id

----------------------------------------------------------------------------
(* C27: updateUser does not look the plan up. *)

\* The input names a plan id that no plan row has.
NoSuchPlan(input) ==
  /\ Has(input, "subscription_plan_id")
  /\ input.subscription_plan_id # NULL
  /\ ById(plans, input.subscription_plan_id) = {}

----------------------------------------------------------------------------
(* C28: the references between the tables, requests served two at a time. *)

\* createUser, createApiKey, createCallSession and createTurn requests, served
\* two at a time; user 2 and session 2 may not exist when they are named.
NextRefs ==
  \/ \E p \in Procs :
        CallCreateUser(p, [email |-> "a@x", name |-> "n",
                           subscription_plan_id |-> NULL])
  \/ \E p \in Procs : CreateUser_Insert(p)
  \/ \E p \in Procs, u \in 1..2 :
        CallCreateApiKey(p, [user_id |-> u, key_hash |-> "h", name |-> "k"])
  \/ \E p \in Procs : CreateApiKey_SelectUser(p)
  \/ \E p \in Procs : CreateApiKey_Insert(p)
  \/ \E p \in Procs, u \in 1..2 :
        CallCreateCallSession(p, [twilio_call_id |-> "CA1", user_id |-> u,
                                  start_time |-> 0])
  \/ \E p \in Procs : CreateCallSession_SelectUser(p)
  \/ \E p \in Procs : CreateCallSession_Insert(p)
  \/ \E p \in Procs, i \in 1..2 :
        CallCreateTurn(p, [call_session_id |-> i, role |-> "user",
                           text |-> NullText, latency_ms |-> NULL])
  \/ \E p \in Procs : CreateTurn_SelectSession(p)
  \/ \E p \in Procs : CreateTurn_Insert(p)

SpecRefs == Init /\ [][NextRefs]_vars

\* C28: in every reachable state, with requests interleaved and no foreign
\* key in the store, the user_id of every API key and of every call session
\* is the id of a user row, and the call_session_id of every turn is the id
\* of a call session row.
C28_ReferencesResolve ==
  /\ \A k \in Rows(keys) : \E u \in Rows(users) : u.id = k.user_id
  /\ \A s \in Rows(sessions) : \E u \in Rows(users) : u.id = s.user_id
  /\ \A t \in Rows(turns) : \E s \in Rows(sessions) : s.id = t.call_session_id

\* A key, a session and a turn are stored, and of two requests answered side
\* by side one was refused for a user that does not exist.
C28_Witness ==
  /\ keys # <<>> /\ sessions # <<>> /\ turns # <<>>
  /\ resp["p1"].op = "createTurn"
  /\ resp["p1"].status = "ok"
  /\ resp["p2"].op = "createCallSession"
  /\ resp["p2"].status = "user_does_not_exist"

----------------------------------------------------------------------------
(* C29: the limit of one user and the keys of another. *)

\* The store after createSubscriptionPlan (max_api_keys = n) and two
\* createUser calls on that plan.
TwoUsersOnPlan(n) ==
  /\ plans = <<[id |-> 1, name |-> "basic", description |-> NullText,
                price |-> 999, max_api_keys |-> n,
                max_monthly_calls |-> NULL, created_at |-> 0]>>
  /\ users = <<[id |-> 1, email |-> "a@x", name |-> "n", created_at |-> 0,
                updated_at |-> 0, subscription_plan_id |-> 1],
               [id |-> 2, email |-> "b@x", name |-> "n", created_at |-> 0,
                updated_at |-> 0, subscription_plan_id |-> 1]>>
  /\ keys = <<>> /\ voices = <<>> /\ sessions = <<>> /\ turns = <<>>
  /\ nextId = [plans |-> 2, users |-> 3, keys |-> 1,
               voices |-> 1, sessions |-> 1, turns |-> 1]

InitQuota == (\E n \in 1..MaxLimit : TwoUsersOnPlan(n)) /\ NoRequests

\* One client that awaits every call before it makes the next: keys are
\* created for either user, deactivated and reactivated.
NextQuota ==
  \/ \E u \in 1..2 :
        CallCreateApiKey("p1", [user_id |-> u, key_hash |-> "h", name |-> "k"])
  \/ CreateApiKey_SelectUser("p1")
  \/ CreateApiKey_SelectPlan("p1")
  \/ CreateApiKey_CountKeys("p1")
  \/ CreateApiKey_Insert("p1")
  \/ \E i \in UpdateApiKeyInputs : CallUpdateApiKey("p1", i)
  \/ UpdateApiKey_Select("p1")
  \/ UpdateApiKey_Update("p1")

SpecQuota == InitQuota /\ [][NextQuota]_vars

\* C29: whether createApiKey for user U succeeds or is refused for the limit
\* is determined by U's plan and U's own active keys alone: it is refused
\* exactly when U's plan has a max_api_keys and U's own active keys are that
\* many or more. States that differ only in the keys of other users give the
\* same outcome, and the keys of other users are not counted.
C29_QuotaOfOwnKeysOnly ==
  [][\A u \in Rows(users) :
       ( /\ req["p1"].op = "createApiKey"
         /\ req["p1"].in.user_id = u.id
         /\ req'["p1"] = Idle )
       => LET own == Cardinality({k \in Rows(keys) :
                                    k.user_id = u.id /\ k.is_active})
              limits == {pl.max_api_keys :
                           pl \in {q \in Rows(plans) :
                                     /\ q.id = u.subscription_plan_id
                                     /\ q.max_api_keys # NULL}}
          IN  resp'["p1"].status =
                IF \E m \in limits : own >= m THEN "limit_reached" ELSE "ok"
    ]_vars

\* A user was given a key while the active keys of the other user already
\* were as many as the plan of both allows.
C29_Witness ==
  /\ resp["p1"].op = "createApiKey"
  /\ resp["p1"].status = "ok"
  /\ \E u \in ById(users, resp["p1"].in.user_id) :
       \E pl \in ById(plans, u.subscription_plan_id) :
          /\ pl.max_api_keys # NULL
          /\ Cardinality({k \in Rows(keys) : k.user_id # u.id /\ k.is_active})
               >= pl.max_api_keys

----------------------------------------------------------------------------
(* C30: which error is reported when two preconditions fail. *)

\* One client that awaits every call before it makes the next: plans, users
\* and call sessions, with plan ids, user ids, emails and twilio_call_ids
\* that may or may not be in the store.
NextErrors ==
  \/ \E i \in {pl \in PlanInputs({"basic"}) : pl.max_api_keys = NULL} :
        CallCreateSubscriptionPlan("p1", i)
  \/ CreateSubscriptionPlan_Select("p1")
  \/ CreateSubscriptionPlan_Insert("p1")
  \/ \E i \in UserInputs : CallCreateUser("p1", i)
  \/ CreateUser_SelectPlan("p1")
  \/ CreateUser_Insert("p1")
  \/ \E i \in UpdateUserEmailInputs : CallUpdateUser("p1", i)
  \/ UpdateUser_SelectUser("p1")
  \/ UpdateUser_CheckEmail("p1")
  \/ UpdateUser_Update("p1")
  \/ \E i \in CallSessionInputs : CallCreateCallSession("p1", i)
  \/ CreateCallSession_SelectUser("p1")
  \/ CreateCallSession_Insert("p1")

SpecErrors == Init /\ [][NextErrors]_vars

\* C30: createUser with a plan id that no plan has and an email that a user
\* holds fails with the plan's 'does not exist'; createCallSession with a
\* user_id that no user has and a twilio_call_id that a session holds fails
\* with the user's 'does not exist'; updateUser with an id that no user has
\* and an email that a user holds fails with 'not found'.
C30_ExistenceReportedFirst ==
  [][/\ ( /\ req["p1"].op = "createUser"
          /\ req'["p1"] = Idle
          /\ Has(req["p1"].in, "subscription_plan_id")
          /\ req["p1"].in.subscription_plan_id # NULL
          /\ \A pl \in Rows(plans) : pl.id # req["p1"].in.subscription_plan_id
          /\ \E u \in Rows(users) : u.email = req["p1"].in.email )
        => resp'["p1"].status = "plan_does_not_exist"
     /\ ( /\ req["p1"].op = "createCallSession"
          /\ req'["p1"] = Idle
          /\ \A u \in Rows(users) : u.id # req["p1"].in.user_id
          /\ \E s \in Rows(sessions) :
               s.twilio_call_id = req["p1"].in.twilio_call_id )
        => resp'["p1"].status = "user_does_not_exist"
     /\ ( /\ req["p1"].op = "updateUser"
          /\ req'["p1"] = Idle
          /\ \A u \in Rows(users) : u.id # req["p1"].in.id
          /\ Has(req["p1"].in, "email")
          /\ \E u \in Rows(users) : u.email = req["p1"].in.email )
        => resp'["p1"].status = "not_found"
    ]_vars

\* createUser was refused for the plan, with an email that a user holds.
C30_Witness ==
  /\ resp["p1"].op = "createUser"
  /\ resp["p1"].status = "plan_does_not_exist"
  /\ ById(plans, resp["p1"].in.subscription_plan_id) = {}
  /\ \E u \in Rows(users) : u.email = resp["p1"].in.email

\* createCallSession was refused for the user, with a twilio_call_id that a
\* session holds.
C30_WitnessCallSession ==
  /\ resp["p1"].op = "createCallSession"
  /\ resp["p1"].status = "user_does_not_exist"
  /\ \E s \in Rows(sessions) : s.twilio_call_id = resp["p1"].in.twilio_call_id

\* updateUser was refused for the id, with an email that a user holds.
C30_WitnessUpdateUser ==
  /\ resp["p1"].op = "updateUser"
  /\ resp["p1"].status = "not_found"
  /\ \E u \in Rows(users) : u.email = resp["p1"].in.email

============================================================================
